---- MODULE Spec2Model ----
(***************************************************************************)
(* Model of wasm-app/src/lib.rs: the three exported chunk functions        *)
(* (compress_chunk, decompress_chunk, hash_chunk) and the start hook main, *)
(* driven by a host that owns the chunk buffers.                           *)
(*                                                                         *)
(* The memory is a fixed set of blocks, each free or holding a byte        *)
(* buffer.  A &[u8] argument is the address of a live buffer the host      *)
(* owns; a returned Vec<u8> is a buffer the callee allocates and hands to  *)
(* the host, which owns it from then on and may change or drop it.  The    *)
(* host console is the sequence of lines logged so far.                    *)
(***************************************************************************)
EXTENDS Integers, Sequences, FiniteSets, TLC

\* Longest chunk the host builds.
MaxLen == 1
\* Number of buffers the memory can hold at a time.
MaxBufs == 2
\* Number of times main runs: once per instantiation of the module.
MaxMainRuns == 1
\* The byte values the host writes (a sample of u8 = 0..255).
SampleBytes == {0, 255}

Addrs == 1..MaxBufs

Chunks == UNION {[1..n -> SampleBytes] : n \in 0..MaxLen}

VARIABLES
    heap,     \* address -> block: [live, bytes]
    console,  \* lines written to the host console, oldest first
    last,     \* the most recent call of an exported function: the function,
              \* the argument bytes as passed and the value returned; or NoCall
    prev      \* an earlier call of an exported function, or NoCall

vars == <<heap, console, last, prev>>

NoCall == [fn |-> "none"]

\* The non-ASCII first character of each literal is written as its code point.
LOADED_LINE == "U+1F680 WASM module loaded and initialized!"
AVAILABLE_LINE == "U+1F4E6 Available functions: compress_chunk, decompress_chunk, hash_chunk"

----------------------------------------------------------------------------
(* The functions of lib.rs, as operators on values.                        *)

Vec(b) == [ty |-> "Vec<u8>", val |-> b]

\* <[u8]>::to_vec: a new Vec of the same length, element i cloned from s[i].
to_vec(s) == Vec([i \in 1..Len(s) |-> s[i]])

\* str::to_string: a new String holding the characters of the literal.
to_string(s) == [ty |-> "String", val |-> s]

\* Faulty variants of compress_chunk: one loses the last byte, one answers
\* from module state that main sets up, one frames the data with a length byte.
compress_chunk_truncating(chunk) ==
    IF chunk = <<>> THEN to_vec(chunk) ELSE to_vec(SubSeq(chunk, 1, Len(chunk) - 1))

compress_chunk_stateful(chunk) ==
    IF console = <<>> THEN to_vec(<<>>) ELSE to_vec(chunk)

compress_chunk_framed(chunk) == to_vec(<<Len(chunk)>> \o chunk)

compress_chunk(chunk) == to_vec(chunk)

\* Faulty variants of decompress_chunk: one strips a header byte the
\* compressor never wrote, one returns an empty Vec.
decompress_chunk_skip_header(chunk) ==
    IF chunk = <<>> THEN to_vec(chunk) ELSE to_vec(Tail(chunk))

decompress_chunk_empty(chunk) == to_vec(<<>>)

decompress_chunk(chunk) == to_vec(chunk)

\* Faulty variants of hash_chunk: one hashes the empty chunk to the empty
\* string, one rejects the empty chunk.
hash_chunk_by_emptiness(chunk) ==
    IF chunk = <<>> THEN to_string("") ELSE to_string("dummy_hash_123")

hash_chunk_rejecting(chunk) ==
    IF chunk = <<>> THEN [ty |-> "Err", val |-> "empty chunk"]
                    ELSE to_string("dummy_hash_123")

hash_chunk(chunk) == to_string("dummy_hash_123")

\* Faulty variant of main: the two lines in the other order.
main_log_swapped == <<AVAILABLE_LINE, LOADED_LINE>>

\* The lines main logs, in the order it logs them.
main_log == <<LOADED_LINE, AVAILABLE_LINE>>

\* A block no buffer occupies.
FreeBlock == [live |-> FALSE, bytes |-> <<>>]

\* A block holding the bytes b.
Buffer(b) == [live |-> TRUE, bytes |-> b]

Live(h) == {a \in Addrs : h[a].live}

\* Faulty variant: the result is built in place, in the block of the argument.
to_vec_addrs_in_place(h, src) == {src}

\* Addresses the allocation made by to_vec for a copy of the slice at src may
\* return: any free block, hence never the block of src itself.
to_vec_addrs(h, src) == {a \in Addrs : ~h[a].live}

----------------------------------------------------------------------------
Init ==
    /\ heap = [a \in Addrs |-> FreeBlock]
    /\ console = <<>>
    /\ last = NoCall
    /\ prev = NoCall

\* The host builds a chunk in a buffer of its own.
HostAlloc ==
    /\ \E a \in Addrs \ Live(heap) : \E c \in Chunks :
          heap' = [heap EXCEPT ![a] = Buffer(c)]
    /\ UNCHANGED <<console, last, prev>>

\* The host overwrites one byte of a buffer it owns (an input chunk it kept,
\* or a Vec<u8> it was given).
HostWrite ==
    /\ \E a \in Live(heap) : \E i \in DOMAIN heap[a].bytes : \E v \in SampleBytes :
          /\ v # heap[a].bytes[i]
          /\ heap' = [heap EXCEPT ![a].bytes[i] = v]
    /\ UNCHANGED <<console, last, prev>>

\* The host drops a buffer it owns.
HostFree ==
    /\ \E a \in Live(heap) : heap' = [heap EXCEPT ![a] = FreeBlock]
    /\ UNCHANGED <<console, last, prev>>

\* The host keeps remembering the earlier call it remembered, or remembers the
\* call that is now being superseded.
Remember == prev' \in {prev, last}

CompressChunk ==
    /\ \E a \in Live(heap) :
          LET r == compress_chunk(heap[a].bytes)
          IN  \E o \in to_vec_addrs(heap, a) :
                 /\ heap' = [heap EXCEPT ![o] = Buffer(r.val)]
                 /\ last' = [fn |-> "compress_chunk", arg |-> heap[a].bytes, ret |-> r]
    /\ Remember
    /\ UNCHANGED console

DecompressChunk ==
    /\ \E a \in Live(heap) :
          LET r == decompress_chunk(heap[a].bytes)
          IN  \E o \in to_vec_addrs(heap, a) :
                 /\ heap' = [heap EXCEPT ![o] = Buffer(r.val)]
                 /\ last' = [fn |-> "decompress_chunk", arg |-> heap[a].bytes, ret |-> r]
    /\ Remember
    /\ UNCHANGED console

\* The returned String is handed to the host by value; it is not a byte buffer.
HashChunk ==
    /\ \E a \in Live(heap) :
          last' = [fn |-> "hash_chunk", arg |-> heap[a].bytes,
                   ret |-> hash_chunk(heap[a].bytes)]
    /\ Remember
    /\ UNCHANGED <<heap, console>>

Main ==
    /\ Len(console) < 2 * MaxMainRuns
    /\ console' = console \o main_log
    /\ UNCHANGED <<heap, last, prev>>

Next ==
    \/ HostAlloc
    \/ HostWrite
    \/ HostFree
    \/ CompressChunk
    \/ DecompressChunk
    \/ HashChunk
    \/ Main

Spec == Init /\ [][Next]_vars

----------------------------------------------------------------------------
(* Properties.                                                             *)

IsCall(c) == c # NoCall

IsBytes(r) == r.ty = "Vec<u8>"

\* Same length and the same byte at every position.
SameBytes(x, y) == Len(x) = Len(y) /\ \A i \in 1..Len(x) : x[i] = y[i]

PassThrough == {"compress_chunk", "decompress_chunk"}

\* C1: whenever decompress_chunk is called on the bytes an earlier
\* compress_chunk call returned for x, it returns x: same length, same byte at
\* every position (x empty included).
C1_RoundTrip ==
    (/\ IsCall(prev) /\ prev.fn = "compress_chunk"
     /\ IsCall(last) /\ last.fn = "decompress_chunk"
     /\ IsBytes(prev.ret) /\ last.arg = prev.ret.val)
    => (IsBytes(last.ret) /\ SameBytes(last.ret.val, prev.arg))

C1_Witness ==
    /\ IsCall(prev) /\ prev.fn = "compress_chunk"
    /\ IsCall(last) /\ last.fn = "decompress_chunk"
    /\ last.arg = prev.ret.val
    /\ Len(prev.arg) = MaxLen
    /\ last.ret.val = prev.arg

\* C2: every compress_chunk call returns bytes equal to its argument: same
\* length (so never shorter), same bytes in the same order.
C2_CompressReturnsInput ==
    (IsCall(last) /\ last.fn = "compress_chunk")
    => (IsBytes(last.ret) /\ SameBytes(last.ret.val, last.arg)
        /\ Len(last.ret.val) >= Len(last.arg))

C2_Witness ==
    /\ IsCall(last) /\ last.fn = "compress_chunk"
    /\ Len(last.arg) = MaxLen
    /\ last.ret = Vec(last.arg)

\* C3: every decompress_chunk call returns bytes equal to its argument,
\* whatever produced the argument; no argument is turned down.
C3_DecompressReturnsInput ==
    (IsCall(last) /\ last.fn = "decompress_chunk")
    => (IsBytes(last.ret) /\ SameBytes(last.ret.val, last.arg))

\* decompress_chunk applied to bytes the host built, no compress_chunk call
\* being remembered.
C3_Witness ==
    /\ prev = NoCall
    /\ IsCall(last) /\ last.fn = "decompress_chunk"
    /\ Len(last.arg) = MaxLen
    /\ last.ret = Vec(last.arg)

\* C4: every hash_chunk call returns the string "dummy_hash_123", so any two
\* hash_chunk calls return the same string whatever their chunks.
C4_HashIsConstant ==
    /\ (IsCall(last) /\ last.fn = "hash_chunk")
          => last.ret = [ty |-> "String", val |-> "dummy_hash_123"]
    /\ (IsCall(prev) /\ prev.fn = "hash_chunk" /\ IsCall(last) /\ last.fn = "hash_chunk")
          => last.ret = prev.ret

\* Two hash_chunk calls on different chunks, one of them empty.
C4_Witness ==
    /\ IsCall(prev) /\ prev.fn = "hash_chunk"
    /\ IsCall(last) /\ last.fn = "hash_chunk"
    /\ prev.arg = <<>> /\ Len(last.arg) = MaxLen
    /\ last.ret.val = "dummy_hash_123" /\ prev.ret.val = "dummy_hash_123"

\* C5: every call of an exported function returns a normal value of its
\* return type (bytes for compress_chunk and decompress_chunk, a string for
\* hash_chunk), never an error, for every argument, the empty one included.
C5_NoCallFails ==
    /\ IsCall(last) =>
          last.ret.ty = (IF last.fn \in PassThrough THEN "Vec<u8>" ELSE "String")
    /\ IsCall(prev) =>
          prev.ret.ty = (IF prev.fn \in PassThrough THEN "Vec<u8>" ELSE "String")

\* A pass-through call and a hash_chunk call, both on the empty chunk.
C5_Witness ==
    /\ IsCall(prev) /\ prev.fn \in PassThrough /\ prev.arg = <<>>
    /\ IsCall(last) /\ last.fn = "hash_chunk" /\ last.arg = <<>>
    /\ prev.ret.ty = "Vec<u8>" /\ last.ret.ty = "String"

\* C6: a step that runs main appends exactly the two fixed lines to the
\* console, the "loaded" line first and the "available functions" line second;
\* every other step (the exported functions included) leaves the console as
\* it is.
C6_MainLogsTwoLines ==
    [][IF Main
         THEN console' = console \o <<"U+1F680 WASM module loaded and initialized!",
              "U+1F4E6 Available functions: compress_chunk, decompress_chunk, hash_chunk">>
         ELSE console' = console]_vars

\* main has run, and exported functions were called.
C6_Witness ==
    /\ Len(console) = 2 * MaxMainRuns
    /\ console[1] = "U+1F680 WASM module loaded and initialized!"
    /\ console[2] = "U+1F4E6 Available functions: compress_chunk, decompress_chunk, hash_chunk"
    /\ IsCall(last) /\ IsCall(prev)

\* C7: two calls of the same exported function with the same argument return
\* the same value, whatever calls, runs of main and host steps lie before and
\* between them.
C7_ResultDependsOnArgumentOnly ==
    (IsCall(prev) /\ IsCall(last) /\ prev.fn = last.fn /\ prev.arg = last.arg)
    => prev.ret = last.ret

\* Two equal calls with main having run in the history.
C7_Witness ==
    /\ IsCall(prev) /\ IsCall(last)
    /\ prev.fn = last.fn /\ prev.arg = last.arg
    /\ Len(last.arg) = MaxLen
    /\ console # <<>>
    /\ prev.ret = last.ret

\* A step in which a compress_chunk or decompress_chunk call returns: the
\* host's record of calls changes and its latest entry is such a call.
PassThroughReturns ==
    /\ last' # last \/ prev' # prev
    /\ IsCall(last') /\ last'.fn \in PassThrough

\* C8: a compress_chunk or decompress_chunk call leaves every buffer that was
\* live before it (its argument among them) byte for byte as it was, and
\* returns its bytes in one block that was free before the call; as the
\* returned Vec is a block of its own, no step changes two blocks at once, so
\* a later change to the returned bytes leaves the argument alone and the
\* reverse.
C8_InputKeptAndCopySeparate ==
    [][/\ PassThroughReturns =>
             /\ \A a \in Live(heap) : heap'[a] = heap[a]
             /\ \E o \in Addrs \ Live(heap) :
                   /\ Live(heap') = Live(heap) \cup {o}
                   /\ heap'[o].bytes = last'.arg
       /\ \/ heap' = heap
          \/ \E a \in Addrs : \A b \in Addrs \ {a} : heap'[b] = heap[b]]_vars

\* After a pass-through call the host changed one of the two buffers: one
\* still holds the bytes passed, the other holds different bytes.
C8_Witness ==
    /\ IsCall(last) /\ last.fn \in PassThrough
    /\ Len(last.arg) = MaxLen
    /\ \E a \in Live(heap) : \E b \in Live(heap) :
          /\ a # b
          /\ heap[a].bytes = last.arg
          /\ Len(heap[b].bytes) = Len(last.arg)
          /\ heap[b].bytes # last.arg

\* C9: compress_chunk and decompress_chunk return the same value for the same
\* argument; applying either to its own result returns that result again; and
\* compress_chunk applied to what decompress_chunk returned for x returns x.
C9_SameFunctionIdempotent ==
    (IsCall(prev) /\ IsCall(last) /\ prev.fn \in PassThrough /\ last.fn \in PassThrough)
    => /\ (prev.arg = last.arg) => (prev.ret = last.ret)
       /\ (prev.fn = last.fn /\ IsBytes(prev.ret) /\ last.arg = prev.ret.val)
             => (last.ret = prev.ret)
       /\ (prev.fn = "decompress_chunk" /\ last.fn = "compress_chunk"
           /\ IsBytes(prev.ret) /\ last.arg = prev.ret.val)
             => (IsBytes(last.ret) /\ SameBytes(last.ret.val, prev.arg))

\* compress_chunk called on what decompress_chunk returned.
C9_Witness ==
    /\ IsCall(prev) /\ prev.fn = "decompress_chunk"
    /\ IsCall(last) /\ last.fn = "compress_chunk"
    /\ last.arg = prev.ret.val
    /\ Len(prev.arg) = MaxLen
    /\ last.ret = prev.ret

====
